---- MODULE Spec2Model ----
(***************************************************************************)
(* Model of classify_patient_aiims_atp (src/app.py), the AIIMS ATP rule    *)
(* cascade, and of the caller that builds the patient_data dictionary and  *)
(* calls it.                                                               *)
(*                                                                         *)
(* Units: spo2 and temp are floats with one decimal in the program; the    *)
(* model holds them in tenths (98.0 % -> 980, 40.1 C -> 401), so that      *)
(* "temp > 40.0" is "temp > 400".  hr, sbp, dbp, rr, pain_score are the    *)
(* program's integers.  The shock index hr / sbp is held as the exact      *)
(* fraction [num, den].                                                    *)
(*                                                                         *)
(* A dictionary is [keys, vals]: keys is the set of keys it holds, vals    *)
(* the value under each key.  data['k'] with k not in keys raises          *)
(* KeyError, as Python does.                                               *)
(***************************************************************************)
EXTENDS Integers, Sequences, FiniteSets

VARIABLES
    data,          \* the dictionary passed to classify_patient_aiims_atp
    pc,            \* "idle" (not in the function) or the tier about to run
    triage_level,  \* local variable triage_level
    reasons,       \* local variable reasons
    shock_index,   \* local variable shock_index
    result,        \* what the latest call gave the caller
    prev           \* what the call before it gave, for the same dictionary

vars == <<data, pc, triage_level, reasons, shock_index, result, prev>>

\* How many fields of a snapshot may differ from the form's defaults.
MaxDev == 2

-----------------------------------------------------------------------------
(* The fields of patient_data *)

VitalFields == {"spo2", "hr", "sbp", "dbp", "rr", "temp", "avpu", "pain_score"}

AirwayFlags == <<"stridor", "angioedema", "active_seizures">>

BreathingFlags == <<"talking_incomplete_sentences", "audible_wheeze">>

TimeSensitiveFlagsA ==
    <<"acute_chest_pain_lt_24hr", "suspected_stroke_lt_24hr", "acute_sob_lt_12hr">>

TimeSensitiveFlagsB ==
    <<"sudden_severe_headache", "acute_limb_ischemia", "history_syncope",
      "abdominal_pain_sudden_onset", "fever_immunocompromised",
      "acute_urinary_retention">>

OtherUrgentFlags ==
    <<"agitated_violent", "suspected_poisoning_bite",
      "pregnant_3rd_trimester_abdominal_bleed">>

YellowFlags ==
    <<"vomiting_diarrhea_persistent", "minor_trauma_with_deformity",
      "fever_no_red_flags", "urinary_symptoms_moderate", "older_adult_minor_fall",
      "pediatric_fever_irritable", "chronic_condition_exacerbation">>

GreenFlags == <<"minor_cut_abrasion", "mild_cold_symptoms", "medication_refill_request">>

Range(s) == {s[i] : i \in 1..Len(s)}

FlagFields ==
    Range(AirwayFlags) \cup Range(BreathingFlags) \cup {"active_bleeding"}
    \cup Range(TimeSensitiveFlagsA) \cup Range(TimeSensitiveFlagsB)
    \cup Range(OtherUrgentFlags) \cup Range(YellowFlags) \cup Range(GreenFlags)

Fields == VitalFields \cup FlagFields

\* The values the form starts with.
DefaultVals ==
    [f \in Fields |->
        CASE f = "spo2" -> 980
          [] f = "hr" -> 80
          [] f = "sbp" -> 120
          [] f = "dbp" -> 80
          [] f = "rr" -> 16
          [] f = "temp" -> 370
          [] f = "avpu" -> "A"
          [] f = "pain_score" -> 0
          [] OTHER -> FALSE]

DefaultData == [keys |-> Fields, vals |-> DefaultVals]

\* The values a caller may give a vital: the ends of the form's range and both
\* sides of every threshold of the cascade; for avpu also a value outside the scale.
VitalValues(f) ==
    CASE f = "spo2" -> {0, 899, 900, 1000}
      [] f = "hr" -> {0, 49, 50, 99, 100, 120, 121, 200}
      [] f = "sbp" -> {0, 89, 90, 179, 180, 220, 221, 250}
      [] f = "dbp" -> {0, 59, 60, 99, 100, 110, 111, 150}
      [] f = "rr" -> {0, 9, 10, 19, 20, 21, 22, 23, 40}
      [] f = "temp" -> {250, 349, 350, 379, 380, 400, 401, 450}
      [] f = "pain_score" -> {3, 4, 5, 7, 8, 10}
      [] f = "avpu" -> {"V", "P", "U", "X"}

AVPUScale == {"A", "V", "P", "U"}

\* All fields present, consciousness on the scale.
WellFormed(d) == d.vals["avpu"] \in AVPUScale /\ d.keys = Fields

\* The fields in which d differs from the form's defaults.
Deviations(d) == {f \in Fields : f \notin d.keys \/ d.vals[f] # DefaultVals[f]}

-----------------------------------------------------------------------------
(* Outcomes of a call *)

NoResult == [kind |-> "None", level |-> "", reasons |-> <<>>, key |-> ""]

Verdict(level, rs) == [kind |-> "Verdict", level |-> level, reasons |-> rs, key |-> ""]

KeyError(k) == [kind |-> "KeyError", level |-> "", reasons |-> <<>>, key |-> k]

ZeroDivisionError ==
    [kind |-> "ZeroDivisionError", level |-> "", reasons |-> <<>>, key |-> ""]

Unbound == [err |-> FALSE, num |-> 0, den |-> 0]

AirwayReason == "Airway compromise (Stridor/Angioedema/Active Seizures)"

BreathingReason == "Breathing compromise (Abnormal RR/SpO2, Dyspnea, Wheeze)"

CirculationReason ==
    "Circulation compromise (Abnormal HR/BP, Shock Index >1, Active Bleeding)"

ConsciousnessReason == "Altered sensorium (AVPU < Alert)"

TimeSensitiveReason ==
    "Time-sensitive/Urgent condition requiring immediate attention (including extreme temp)."

OtherUrgentReason ==
    "Other highly urgent condition (Agitation/Poisoning/Pregnancy complication)."

YellowVitalsReason ==
    "Vital signs slightly abnormal, warranting urgent assessment (including fever)."

YellowSymptomReason == "Semi-urgent condition requiring evaluation/admission."

DefaultReason == "No specific red or yellow criteria met. Appears non-urgent."

MinorReason == "Minor condition with stable vitals."

-----------------------------------------------------------------------------
(* Conditions: a Python "a or b or ..." over dictionary lookups.  A clause  *)
(* is [key, holds]: the key it looks up ("" for none) and whether it is     *)
(* true.  The clauses are evaluated left to right and evaluation stops at   *)
(* the first true one; a clause whose key is missing raises KeyError.  The   *)
(* value kept under a missing key is never used.                            *)

Clause(k, b) == [key |-> k, holds |-> b]

FlagClauses(d, flags) == [i \in 1..Len(flags) |-> Clause(flags[i], d.vals[flags[i]])]

RECURSIVE EvalOr(_, _, _)
EvalOr(d, cl, i) ==
    IF i > Len(cl) THEN [v |-> FALSE, err |-> ""]
    ELSE IF cl[i].key # "" /\ cl[i].key \notin d.keys THEN [v |-> FALSE, err |-> cl[i].key]
    ELSE IF cl[i].holds THEN [v |-> TRUE, err |-> ""]
    ELSE EvalOr(d, cl, i + 1)

-----------------------------------------------------------------------------
(* The conditions of the eight tiers, in the order the code writes them *)

AirwayClauses(d) == FlagClauses(d, AirwayFlags)

\* BreathingClauses with "rr >= 22" for "rr > 22".
BreathingClausesInclusive(d) ==
    FlagClauses(d, BreathingFlags)
    \o <<Clause("rr", d.vals["rr"] >= 22),
         Clause("rr", d.vals["rr"] < 10),
         Clause("spo2", d.vals["spo2"] < 900)>>

BreathingClauses(d) ==
    FlagClauses(d, BreathingFlags)
    \o <<Clause("rr", d.vals["rr"] > 22),
         Clause("rr", d.vals["rr"] < 10),
         Clause("spo2", d.vals["spo2"] < 900)>>

\* ShockIndex without the guard: hr / sbp, which raises when sbp is 0.
ShockIndexUnguarded(hr, sbp) ==
    IF sbp # 0 THEN [err |-> FALSE, num |-> hr, den |-> sbp]
    ELSE [err |-> TRUE, num |-> hr, den |-> sbp]

\* hr / sbp if sbp != 0 else 0
ShockIndex(hr, sbp) ==
    IF sbp # 0 THEN [err |-> FALSE, num |-> hr, den |-> sbp]
    ELSE [err |-> FALSE, num |-> 0, den |-> 1]

\* shock_index > 1.0, for a fraction with den >= 0
ExceedsOne(si) == si.num > si.den

\* Line 26 looks sbp up first, and hr only when sbp is not 0.
ShockIndexLookup(d) ==
    IF "sbp" \notin d.keys THEN [key |-> "sbp", val |-> Unbound]
    ELSE IF d.vals["sbp"] # 0 /\ "hr" \notin d.keys THEN [key |-> "hr", val |-> Unbound]
    ELSE [key |-> "", val |-> ShockIndex(d.vals["hr"], d.vals["sbp"])]

CirculationClauses(d, si) ==
    <<Clause("hr", d.vals["hr"] < 50),
      Clause("hr", d.vals["hr"] > 120),
      Clause("sbp", d.vals["sbp"] < 90),
      Clause("sbp", d.vals["sbp"] > 220),
      Clause("dbp", d.vals["dbp"] < 60),
      Clause("dbp", d.vals["dbp"] > 110),
      Clause("", ExceedsOne(si)),
      Clause("active_bleeding", d.vals["active_bleeding"])>>

ConsciousnessClauses(d) == <<Clause("avpu", d.vals["avpu"] \in {"V", "P", "U"})>>

TimeSensitiveClauses(d) ==
    FlagClauses(d, TimeSensitiveFlagsA)
    \o <<Clause("pain_score", d.vals["pain_score"] > 7)>>
    \o FlagClauses(d, TimeSensitiveFlagsB)
    \o <<Clause("temp", d.vals["temp"] > 400),
         Clause("temp", d.vals["temp"] < 350)>>

OtherUrgentClauses(d) == FlagClauses(d, OtherUrgentFlags)

YellowVitalsClauses(d) ==
    <<Clause("rr", d.vals["rr"] >= 20 /\ d.vals["rr"] <= 22),
      Clause("hr", d.vals["hr"] >= 100 /\ d.vals["hr"] <= 120),
      Clause("sbp", d.vals["sbp"] >= 180 /\ d.vals["sbp"] <= 220),
      Clause("dbp", d.vals["dbp"] >= 100 /\ d.vals["dbp"] <= 110),
      Clause("temp", d.vals["temp"] >= 380 /\ d.vals["temp"] <= 400)>>

YellowSymptomClauses(d) ==
    <<Clause("pain_score", d.vals["pain_score"] >= 4 /\ d.vals["pain_score"] <= 7)>>
    \o FlagClauses(d, YellowFlags)

-----------------------------------------------------------------------------
(* What a tier does to the locals once its condition is true *)

\* RedStep without the return.
RedStepNoReturn(reason, rs) ==
    [level |-> "RED", reasons |-> Append(rs, reason), returns |-> FALSE]

\* append the reason, triage_level = "RED", return
RedStep(reason, rs) ==
    [level |-> "RED", reasons |-> Append(rs, reason), returns |-> TRUE]

\* YellowVitalsStep without the append.
YellowVitalsStepNoReason(level, rs) == [level |-> "YELLOW", reasons |-> rs]

\* lines 64-65
YellowVitalsStep(level, rs) ==
    [level |-> "YELLOW", reasons |-> Append(rs, YellowVitalsReason)]

\* YellowSymptomStep whose first branch appends and leaves the level alone.
YellowSymptomStepKeepsLevel(level, rs) ==
    IF level = "GREEN"
    THEN [level |-> level, reasons |-> Append(rs, YellowSymptomReason)]
    ELSE IF level = "YELLOW" /\ rs = <<>>
    THEN [level |-> level, reasons |-> Append(rs, YellowSymptomReason)]
    ELSE [level |-> level, reasons |-> rs]

\* lines 74-78
YellowSymptomStep(level, rs) ==
    IF level = "GREEN"
    THEN [level |-> "YELLOW", reasons |-> Append(rs, YellowSymptomReason)]
    ELSE IF level = "YELLOW" /\ rs = <<>>
    THEN [level |-> level, reasons |-> Append(rs, YellowSymptomReason)]
    ELSE [level |-> level, reasons |-> rs]

\* DefaultStep without the catch-all reason.
DefaultStepNoReason(level, rs) ==
    IF rs = <<>>
    THEN [level |-> "GREEN", reasons |-> rs]
    ELSE [level |-> level, reasons |-> rs]

\* lines 82-86
DefaultStep(level, rs) ==
    IF rs = <<>>
    THEN [level |-> "GREEN", reasons |-> Append(rs, DefaultReason)]
    ELSE IF level = "GREEN" /\ rs = <<>>
    THEN [level |-> level, reasons |-> Append(rs, MinorReason)]
    ELSE [level |-> level, reasons |-> rs]

-----------------------------------------------------------------------------
(* The caller: the form and the button *)

\* NewReasons for a list that outlives the call (a mutable default argument).
KeptReasons(old) == old

\* reasons = [] on entry, whatever an earlier call left
NewReasons(old) == <<>>

\* The fields the caller may still change: those at their default, while fewer
\* than MaxDev fields differ from the defaults.
Editable ==
    IF pc = "idle"
    THEN LET dev == Deviations(data)
         IN IF Cardinality(dev) < MaxDev THEN Fields \ dev ELSE {}
    ELSE {}

\* Every change of the form reruns the script: the previous run's frame and
\* result are gone.
Rerun(d) ==
    /\ data' = d
    /\ pc' = "idle"
    /\ triage_level' = "GREEN"
    /\ reasons' = <<>>
    /\ shock_index' = Unbound
    /\ result' = NoResult
    /\ prev' = NoResult

SetVital(f, v) == Rerun([data EXCEPT !.vals[f] = v])

SetFlag(f) == Rerun([data EXCEPT !.vals[f] = TRUE])

\* A caller other than the form may leave a key out of the dictionary.
OmitKey(f) == Rerun([data EXCEPT !.keys = @ \ {f}])

\* classify_patient_aiims_atp(patient_data): lines 9-10
Call ==
    /\ pc = "idle"
    /\ pc' = "airway"
    /\ triage_level' = "GREEN"
    /\ reasons' = NewReasons(reasons)
    /\ shock_index' = Unbound
    /\ prev' = result
    /\ result' = NoResult
    /\ UNCHANGED data

-----------------------------------------------------------------------------
(* The cascade *)

Raise(e) ==
    /\ result' = e
    /\ pc' = "idle"
    /\ UNCHANGED <<triage_level, reasons>>

Return(level, rs) ==
    /\ result' = Verdict(level, rs)
    /\ pc' = "idle"

RedTier(c, reason, next) ==
    IF c.err # "" THEN Raise(KeyError(c.err))
    ELSE IF c.v
    THEN LET s == RedStep(reason, reasons)
         IN /\ triage_level' = s.level
            /\ reasons' = s.reasons
            /\ IF s.returns THEN Return(s.level, s.reasons)
               ELSE pc' = next /\ UNCHANGED result
    ELSE /\ pc' = next
         /\ UNCHANGED <<triage_level, reasons, result>>

Airway ==
    /\ pc = "airway"
    /\ RedTier(EvalOr(data, AirwayClauses(data), 1), AirwayReason, "breathing")
    /\ UNCHANGED <<data, shock_index, prev>>

Breathing ==
    /\ pc = "breathing"
    /\ RedTier(EvalOr(data, BreathingClauses(data), 1), BreathingReason, "circulation")
    /\ UNCHANGED <<data, shock_index, prev>>

Circulation ==
    /\ pc = "circulation"
    /\ LET si == ShockIndexLookup(data)
       IN IF si.key # "" THEN Raise(KeyError(si.key)) /\ UNCHANGED shock_index
          ELSE IF si.val.err THEN Raise(ZeroDivisionError) /\ UNCHANGED shock_index
          ELSE /\ shock_index' = si.val
               /\ RedTier(EvalOr(data, CirculationClauses(data, si.val), 1),
                          CirculationReason, "consciousness")
    /\ UNCHANGED <<data, prev>>

Consciousness ==
    /\ pc = "consciousness"
    /\ RedTier(EvalOr(data, ConsciousnessClauses(data), 1), ConsciousnessReason,
               "time_sensitive")
    /\ UNCHANGED <<data, shock_index, prev>>

TimeSensitive ==
    /\ pc = "time_sensitive"
    /\ RedTier(EvalOr(data, TimeSensitiveClauses(data), 1), TimeSensitiveReason,
               "other_urgent")
    /\ UNCHANGED <<data, shock_index, prev>>

OtherUrgent ==
    /\ pc = "other_urgent"
    /\ RedTier(EvalOr(data, OtherUrgentClauses(data), 1), OtherUrgentReason,
               "yellow_vitals")
    /\ UNCHANGED <<data, shock_index, prev>>

YellowTier(c, s, next) ==
    IF c.err # "" THEN Raise(KeyError(c.err))
    ELSE /\ pc' = next
         /\ triage_level' = (IF c.v THEN s.level ELSE triage_level)
         /\ reasons' = (IF c.v THEN s.reasons ELSE reasons)
         /\ UNCHANGED result

YellowVitals ==
    /\ pc = "yellow_vitals"
    /\ YellowTier(EvalOr(data, YellowVitalsClauses(data), 1),
                  YellowVitalsStep(triage_level, reasons), "yellow_symptoms")
    /\ UNCHANGED <<data, shock_index, prev>>

YellowSymptoms ==
    /\ pc = "yellow_symptoms"
    /\ YellowTier(EvalOr(data, YellowSymptomClauses(data), 1),
                  YellowSymptomStep(triage_level, reasons), "default")
    /\ UNCHANGED <<data, shock_index, prev>>

\* lines 82-89
Default ==
    /\ pc = "default"
    /\ LET s == DefaultStep(triage_level, reasons)
       IN /\ triage_level' = s.level
          /\ reasons' = s.reasons
          /\ Return(s.level, s.reasons)
    /\ UNCHANGED <<data, shock_index, prev>>

-----------------------------------------------------------------------------

Init ==
    /\ data = DefaultData
    /\ pc = "idle"
    /\ triage_level = "GREEN"
    /\ reasons = <<>>
    /\ shock_index = Unbound
    /\ result = NoResult
    /\ prev = NoResult

Next ==
    \/ \E f \in Editable \cap VitalFields : \E v \in VitalValues(f) : SetVital(f, v)
    \/ \E f \in Editable \cap FlagFields : SetFlag(f)
    \/ \E f \in Editable : OmitKey(f)
    \/ Call
    \/ Airway
    \/ Breathing
    \/ Circulation
    \/ Consciousness
    \/ TimeSensitive
    \/ OtherUrgent
    \/ YellowVitals
    \/ YellowSymptoms
    \/ Default

Spec == Init /\ [][Next]_vars

-----------------------------------------------------------------------------
(* Vocabulary of the properties *)

\* The order of the levels: GREEN < YELLOW < RED.
Rank(level) == CASE level = "GREEN" -> 0 [] level = "YELLOW" -> 1 [] level = "RED" -> 2

\* The latest call has come back to the caller.
Done == pc = "idle" /\ result.kind # "None"

\* The steps of the cascade in the order of the code; a call that has come
\* back is past them all.
StepOrder ==
    <<"airway", "breathing", "circulation", "consciousness", "time_sensitive",
      "other_urgent", "yellow_vitals", "yellow_symptoms", "default", "idle">>

StepNo(p) == CHOOSE i \in 1..Len(StepOrder) : StepOrder[i] = p

Val(f) == data.vals[f]

\* The form's defaults with one field changed.
With(f, v) == [DefaultData EXCEPT !.vals[f] = v]

\* The predicate of tier n on a dictionary that holds every key.
TierHolds(d, n) ==
    CASE n = 1 -> EvalOr(d, AirwayClauses(d), 1).v
      [] n = 2 -> EvalOr(d, BreathingClauses(d), 1).v
      [] n = 3 -> EvalOr(d, CirculationClauses(d, ShockIndex(d.vals["hr"], d.vals["sbp"])), 1).v
      [] n = 4 -> EvalOr(d, ConsciousnessClauses(d), 1).v
      [] n = 5 -> EvalOr(d, TimeSensitiveClauses(d), 1).v
      [] n = 6 -> EvalOr(d, OtherUrgentClauses(d), 1).v
      [] n = 7 -> EvalOr(d, YellowVitalsClauses(d), 1).v
      [] n = 8 -> EvalOr(d, YellowSymptomClauses(d), 1).v

RedTiers(d) == {n \in 1..6 : TierHolds(d, n)}

TierReason(n) ==
    CASE n = 1 -> AirwayReason
      [] n = 2 -> BreathingReason
      [] n = 3 -> CirculationReason
      [] n = 4 -> ConsciousnessReason
      [] n = 5 -> TimeSensitiveReason
      [] n = 6 -> OtherUrgentReason

First(S) == CHOOSE n \in S : \A m \in S : n <= m

-----------------------------------------------------------------------------
(* C1 *)

\* C1 (yellow accumulation): a well-formed snapshot with no RED criterion and
\* with both the yellow-vitals and the yellow-symptom predicate true yields
\* YELLOW with exactly two reasons, the vital-signs reason then the semi-urgent
\* reason.  The code records only the first: line 77 asks for an empty reasons
\* list, which the vitals tier has just filled.
C1_YellowAccumulation ==
    (Done /\ WellFormed(data) /\ RedTiers(data) = {}
          /\ TierHolds(data, 7) /\ TierHolds(data, 8))
    => result = Verdict("YELLOW", <<YellowVitalsReason, YellowSymptomReason>>)

-----------------------------------------------------------------------------
(* C2 *)

\* C2 (short-circuit): a well-formed snapshot for which some RED tier's
\* predicate holds yields RED with exactly one reason, that of the first such
\* tier in the order airway, breathing, circulation, consciousness,
\* time-sensitive, other-urgent.
C2_ShortCircuit ==
    (Done /\ WellFormed(data) /\ RedTiers(data) # {})
    => result = Verdict("RED", <<TierReason(First(RedTiers(data)))>>)

\* A RED verdict for a snapshot on which two RED tiers hold.
C2_Witness ==
    /\ Done
    /\ WellFormed(data)
    /\ Cardinality(RedTiers(data)) = 2
    /\ result.kind = "Verdict"
    /\ result.level = "RED"

-----------------------------------------------------------------------------
(* C3 *)

\* C3 (totality): on a well-formed snapshot every step of a call moves to a
\* later step of the cascade or returns, so the call ends within nine steps;
\* it raises nothing, and what it returns is one of RED, YELLOW, GREEN with at
\* least one reason.
C3_Totality ==
    [][(pc # "idle" /\ WellFormed(data)) =>
          /\ pc' \in Range(StepOrder)
          /\ StepNo(pc') > StepNo(pc)
          /\ pc' = "idle" =>
                /\ result'.kind = "Verdict"
                /\ result'.level \in {"RED", "YELLOW", "GREEN"}
                /\ Len(result'.reasons) >= 1]_vars

\* A verdict for a snapshot with two vitals at 0.
C3_Witness ==
    /\ Done
    /\ WellFormed(data)
    /\ Val("sbp") = 0
    /\ Val("rr") = 0
    /\ result.kind = "Verdict"

-----------------------------------------------------------------------------
(* C4 *)

\* C4 (no verdict from incomplete data): a call on a dictionary from which a
\* field is absent fails (with InvalidInput) and returns no verdict.  Stated
\* here by its weaker half, that no verdict comes back: the code returns one
\* whenever it never reaches the missing key, and raises a bare KeyError,
\* which is not InvalidInput either, when it does.
C4_IncompleteRejected ==
    (Done /\ data.keys # Fields) => result.kind # "Verdict"

-----------------------------------------------------------------------------
(* C5 *)

\* C5 (malformed consciousness): a call on a complete dictionary whose avpu is
\* outside A, V, P, U, and that the airway, breathing and circulation tiers do
\* not resolve, fails with InvalidInput.  The code treats the value as Alert.
C5_MalformedAvpuRejected ==
    (Done /\ data.keys = Fields /\ Val("avpu") \notin AVPUScale
          /\ RedTiers(data) \cap {1, 2, 3} = {})
    => result.kind = "InvalidInput"

-----------------------------------------------------------------------------
(* C6 *)

\* C6 (monotonic upgrade): within one call no step lowers triage_level in the
\* order GREEN < YELLOW < RED, and once it is RED the call has returned.
C6_MonotonicUpgrade ==
    [][/\ pc # "idle" => Rank(triage_level') >= Rank(triage_level)
       /\ triage_level = "RED" => pc = "idle"]_vars

\* The symptom tier has run, its predicate true, after the vitals tier set YELLOW.
C6_Witness ==
    /\ pc = "default"
    /\ triage_level = "YELLOW"
    /\ reasons[1] = YellowVitalsReason
    /\ TierHolds(data, 8)

-----------------------------------------------------------------------------
(* C7 *)

\* C7 (boundary exactness): with every other field at its default, rr = 22
\* gives YELLOW (vital signs) and rr = 23 RED (breathing); temp = 40.0 gives
\* YELLOW (vital signs) and temp = 40.1 RED (time-sensitive).
C7_BoundaryExactness ==
    Done =>
        /\ data = With("rr", 22) => result = Verdict("YELLOW", <<YellowVitalsReason>>)
        /\ data = With("rr", 23) => result = Verdict("RED", <<BreathingReason>>)
        /\ data = With("temp", 400) => result = Verdict("YELLOW", <<YellowVitalsReason>>)
        /\ data = With("temp", 401) => result = Verdict("RED", <<TimeSensitiveReason>>)

\* The call on rr = 22 has returned YELLOW.
C7_Witness == Done /\ data = With("rr", 22) /\ result.level = "YELLOW"

-----------------------------------------------------------------------------
(* C8 *)

\* The clauses of the circulation tier other than the shock index.
OtherCirculationClause(d) ==
    \/ d.vals["hr"] < 50 \/ d.vals["hr"] > 120
    \/ d.vals["sbp"] < 90 \/ d.vals["sbp"] > 220
    \/ d.vals["dbp"] < 60 \/ d.vals["dbp"] > 110
    \/ d.vals["active_bleeding"]

\* C8 (shock-index zero-guard): on a well-formed snapshot with sbp = 0 no
\* division error is raised, the shock index computed is 0 and is not above
\* 1.0, and a circulation verdict rests on another clause of that tier.
C8_ShockIndexZeroGuard ==
    (Val("sbp") = 0 /\ WellFormed(data)) =>
        /\ result.kind # "ZeroDivisionError"
        /\ shock_index # Unbound =>
              /\ shock_index.num = 0
              /\ shock_index.den # 0
              /\ ~ExceedsOne(shock_index)
        /\ (Done /\ shock_index # Unbound) =>
              /\ result = Verdict("RED", <<CirculationReason>>)
              /\ OtherCirculationClause(data)

\* The circulation tier has run on sbp = 0 with a heart rate above 0.
C8_Witness ==
    /\ Done
    /\ WellFormed(data)
    /\ Val("sbp") = 0
    /\ Val("hr") = 200
    /\ shock_index # Unbound

-----------------------------------------------------------------------------
(* C9 *)

\* C9 (default green): a well-formed snapshot on which no predicate of tiers
\* 1-8 holds yields GREEN with the single reason "No specific red or yellow
\* criteria met. Appears non-urgent."; GREEN is returned with no other Reason
\* Log, and "Minor condition with stable vitals." is in no verdict.
C9_DefaultGreen ==
    Done =>
        /\ (WellFormed(data) /\ \A n \in 1..8 : ~TierHolds(data, n))
              => result = Verdict("GREEN", <<DefaultReason>>)
        /\ (result.kind = "Verdict" /\ result.level = "GREEN")
              => result.reasons = <<DefaultReason>>
        /\ MinorReason \notin Range(result.reasons)

\* The call on the form's defaults has returned GREEN.
C9_Witness == Done /\ data = DefaultData /\ result.level = "GREEN"

-----------------------------------------------------------------------------
(* C10 *)

\* C10 (idempotence, statelessness): a call never changes the dictionary it is
\* given, and a call repeated on the same dictionary, whatever calls came
\* before, gives the result the previous one gave.
C10_Idempotence ==
    [][/\ pc # "idle" => data' = data
       /\ (Done /\ prev.kind # "None") => result = prev]_vars

\* A second call on a changed form has returned the first call's verdict again.
C10_Witness ==
    /\ Done
    /\ prev.kind = "Verdict"
    /\ result = prev
    /\ Cardinality(Deviations(data)) = MaxDev

====
